---- MODULE Spec2Model ----
(***************************************************************************)
(* llamafile-launcher: acquisition-with-caching of binary assets (model    *)
(* weights, llamafile-server, zipalign) and assembly of the two artifact   *)
(* kinds (standalone llamafile, docker image).                             *)
(*                                                                         *)
(* The file system is shared state; every async fn is cut at its await     *)
(* points, so that invocations can interleave exactly where the code       *)
(* suspends.  The network, the disk and the subprocess are the             *)
(* environment: their outcomes are drawn with \E.                          *)
(***************************************************************************)
EXTENDS Integers, Sequences, FiniteSets, TLC

VARIABLES
    fs,        \* path -> [exists, data, exec]: the regular files
    dirs,      \* the directories that exist
    dl,        \* invocation -> the frame of its HttpClient::download_to call
    pbPos,     \* invocation -> the positions given to pb.set_position
    reqLog,    \* the GETs sent, in order: [by, url]
    cur,       \* invocation -> the resolve call in progress
    hist,      \* invocation -> the last two resolve calls that returned
    budget,    \* invocation -> resolve calls it has still to make
    builder,   \* the fields of the LlamafileBuilder
    bld,       \* the frame of its build call
    runs,      \* the zipalign subprocesses spawned: [build, args]
    nbuilds,   \* build calls made on the builder
    results,   \* what the build calls returned: [ok, err]
    rv,        \* asset resolution on its own: [assets, prefix, done, found, asset]
    dk         \* the frame of Docker::build_image

modelsVars == <<cur, hist, budget>>

builderVars == <<builder, bld, runs, nbuilds, results>>

vars == <<fs, dirs, dl, pbPos, reqLog, modelsVars, builderVars, rv, dk>>

-----------------------------------------------------------------------------
(* Bounds *)

\* largest Content-Length a response advertises
MaxLen == 2
\* build calls made on one LlamafileBuilder
MaxBuilds == 3
\* assets in a release manifest
MaxAssets == 3
\* model paths given to build_image
MaxModels == 2
\* messages the build API streams back
MaxMsgs == 2
\* resolve calls one sequential run makes
MaxCalls == 3

-----------------------------------------------------------------------------
(* Paths and URLs.  A path is the sequence of its components, a URL the    *)
(* sequence of its '/'-separated segments.  File names are relative.       *)

Min(a, b) == IF a <= b THEN a ELSE b

Max(a, b) == IF a >= b THEN a ELSE b

\* Path::join / PathBuf::push with a relative name; join("") is the directory
Join(dir, name) == IF name = "" THEN dir ELSE Append(dir, name)

Parent(path) == SubSeq(path, 1, Len(path) - 1)

\* Models::new: basedir.unwrap_or("./models/")
BaseDir == <<"models">>

\* url.split('/').last(): always Some, "" for a URL ending in '/'
FileNameOf(url) == url[Len(url)]

\* format!("https://huggingface.co/{}/resolve/main/{}?download=true", ..)
HfUrl(model, file) ==
    <<"huggingface.co">> \o model \o <<"resolve", "main", file \o "?download=true">>

UrlA == <<"host", "a.gguf">>

UrlMirrorA == <<"mirror", "a.gguf">>

HfModel == <<"org", "repo">>

HfFile == "w.gguf"

NoSource == [kind |-> "none", url |-> <<>>, model |-> <<>>, file |-> ""]

UrlSource(u) == [kind |-> "url", url |-> u, model |-> <<>>, file |-> ""]

HfSource(m, f) == [kind |-> "hf", url |-> <<>>, model |-> m, file |-> f]

Urls == {UrlA, UrlMirrorA}

Sources == {UrlSource(u) : u \in Urls} \cup {HfSource(HfModel, HfFile)}

\* base_dir.join(filename) / base_dir.join(model).join(filename)
CachePath(src) ==
    IF src.kind = "url" THEN Join(BaseDir, FileNameOf(src.url))
    ELSE Join(BaseDir \o src.model, src.file)

CachePaths == {CachePath(s) : s \in Sources}

-----------------------------------------------------------------------------
(* The file system *)

NoFile == [exists |-> FALSE, data |-> <<>>, exec |-> FALSE]

\* Path::exists
Exists(path) == path \in dirs \/ (path \in DOMAIN fs /\ fs[path].exists)

\* OpenOptions::new().write(true).create(true)[.mode(0o755)].open(path):
\* creates an empty file, executable only when the mode was asked for
OpenCreate(f, set_executable) ==
    IF f.exists THEN f
    ELSE [exists |-> TRUE, data |-> <<>>, exec |-> set_executable]

\* mutant of FileCreate: the file is opened for writing without truncation
FileCreateNoTruncate(f) == [f EXCEPT !.exists = TRUE]

\* File::create(path): opens for writing and truncates; the mode stays
FileCreate(f) == [f EXCEPT !.exists = TRUE, !.data = <<>>]

\* write_all through a descriptor whose offset is off (no O_APPEND):
\* bytes past the old end leave a hole of zero bytes
WriteAt(data, off, bytes) ==
    [i \in 1..Max(Len(data), off + Len(bytes)) |->
        IF i > off /\ i <= off + Len(bytes) THEN bytes[i - off]
        ELSE IF i <= Len(data) THEN data[i]
        ELSE "0"]

-----------------------------------------------------------------------------
(* HttpClient *)

\* status.is_success()
IsSuccess(status) == status \in 200..299

\* what the network answers to one GET: no response at all, or a status
\* line with or without a Content-Length
Responses ==
    [sent : {FALSE}, status : {0}, hasLen : {FALSE}, len : {0}]
    \cup [sent : {TRUE}, status : {200, 404}, hasLen : {FALSE}, len : {0}]
    \cup [sent : {TRUE}, status : {200, 404}, hasLen : {TRUE}, len : 0..MaxLen]

\* the bytes of a body: the asset for a success status, an error page otherwise
BodyByte(status) == IF IsSuccess(status) THEN "d" ELSE "e"

Repeat(b, n) == [i \in 1..n |-> b]

\* mutant of Download: a missing Content-Length read as a length of 0
DownloadLenOrZero(resp) ==
    IF ~resp.sent THEN [ok |-> FALSE, err |-> "Failed to GET", total |-> 0]
    ELSE [ok |-> TRUE, err |-> "", total |-> IF resp.hasLen THEN resp.len ELSE 0]

\* HttpClient::download: send().await.or(Err)?, content_length().ok_or(Err)?
\* (the status of the response is not looked at)
Download(resp) ==
    IF ~resp.sent THEN [ok |-> FALSE, err |-> "Failed to GET", total |-> 0]
    ELSE IF ~resp.hasLen
         THEN [ok |-> FALSE, err |-> "Failed to get content length", total |-> 0]
         ELSE [ok |-> TRUE, err |-> "", total |-> resp.len]

\* mutant of Progress: the chunk is not added to what was downloaded before
ProgressNoAccumulate(downloaded, chunk_len, total_size) ==
    Min(chunk_len, total_size)

\* downloaded = min(downloaded + chunk.len(), total_size)
Progress(downloaded, chunk_len, total_size) ==
    Min(downloaded + chunk_len, total_size)

NoResponse == [sent |-> FALSE, status |-> 0, hasLen |-> FALSE, len |-> 0]

\* the locals of download_to: resp is what the server answered, left the
\* bytes of the body still to come, off the offset of the file descriptor
NoFrame ==
    [pc |-> "idle", url |-> <<>>, path |-> <<>>, exec |-> FALSE,
     resp |-> NoResponse, total |-> 0, left |-> 0, off |-> 0,
     downloaded |-> 0, err |-> ""]

\* entering download_to(url, path, set_executable)
CallDownloadTo(url, path, set_executable) ==
    [NoFrame EXCEPT !.pc = "send", !.url = url, !.path = path,
                    !.exec = set_executable]

Fail(frame, msg) == [frame EXCEPT !.pc = "err", !.err = msg]

\* self.download(url).await?
DlSend(p) ==
    /\ dl[p].pc = "send"
    /\ \E resp \in Responses :
         LET r == Download(resp) IN
         /\ reqLog' = Append(reqLog, [by |-> p, url |-> dl[p].url])
         /\ dl' = [dl EXCEPT ![p] =
                IF r.ok
                THEN [@ EXCEPT !.pc = "open", !.resp = resp,
                               !.total = r.total, !.left = r.total]
                ELSE Fail([@ EXCEPT !.resp = resp], r.err)]
    /\ pbPos' = [pbPos EXCEPT ![p] = <<>>]
    /\ UNCHANGED <<fs, dirs, modelsVars, builderVars, rv, dk>>

\* options.open(path).or(Err)?; File::create(path)?
DlOpen(p) ==
    /\ dl[p].pc = "open"
    /\ LET path == dl[p].path IN
       \/ \* the open fails: the directory is missing, the path is one, or the disk refuses
          /\ dl' = [dl EXCEPT ![p] = Fail(@, "Failed to open file")]
          /\ fs' = fs
       \/ \* the open creates the file and File::create fails
          /\ Parent(path) \in dirs /\ path \notin dirs
          /\ fs' = [fs EXCEPT ![path] = OpenCreate(@, dl[p].exec)]
          /\ dl' = [dl EXCEPT ![p] = Fail(@, "io error")]
       \/ /\ Parent(path) \in dirs /\ path \notin dirs
          /\ fs' = [fs EXCEPT ![path] = FileCreate(OpenCreate(@, dl[p].exec))]
          /\ dl' = [dl EXCEPT ![p] = [@ EXCEPT !.pc = "stream"]]
    /\ UNCHANGED <<dirs, pbPos, reqLog, modelsVars, builderVars, rv, dk>>

\* one turn of `while let Some(item) = stream.next().await` with Ok(chunk)
DlChunk(p) ==
    /\ dl[p].pc = "stream"
    /\ dl[p].left > 0
    /\ \E k \in 1..dl[p].left :
         LET f == dl[p]
             chunk == Repeat(BodyByte(f.resp.status), k)
             new == Progress(f.downloaded, k, f.total)
         IN
         \/ \* write_all succeeds
            /\ fs' = [fs EXCEPT ![f.path].data = WriteAt(@, f.off, chunk)]
            /\ dl' = [dl EXCEPT ![p] =
                   [@ EXCEPT !.left = @ - k, !.off = @ + k, !.downloaded = new]]
            /\ pbPos' = [pbPos EXCEPT ![p] = Append(@, new)]
         \/ \* write_all fails after j < k bytes
            \E j \in 0..(k - 1) :
              /\ fs' = [fs EXCEPT ![f.path].data =
                     WriteAt(@, f.off, SubSeq(chunk, 1, j))]
              /\ dl' = [dl EXCEPT ![p] = Fail(@, "Error while writing to file")]
              /\ pbPos' = pbPos
    /\ UNCHANGED <<dirs, reqLog, modelsVars, builderVars, rv, dk>>

\* mutant of DlStreamErr: the destination is removed when the stream fails
DlStreamErrCleanup(p) ==
    /\ dl[p].pc = "stream"
    /\ dl[p].left > 0
    /\ dl' = [dl EXCEPT ![p] = Fail(@, "Error while downloading file")]
    /\ fs' = [fs EXCEPT ![dl[p].path] = NoFile]
    /\ UNCHANGED <<dirs, pbPos, reqLog, modelsVars, builderVars, rv, dk>>

\* stream.next() yields Err: the connection broke before the advertised length
DlStreamErr(p) ==
    /\ dl[p].pc = "stream"
    /\ dl[p].left > 0
    /\ dl' = [dl EXCEPT ![p] = Fail(@, "Error while downloading file")]
    /\ UNCHANGED <<fs, dirs, pbPos, reqLog, modelsVars, builderVars, rv, dk>>

\* stream.next() yields None: pb.finish_with_message, Ok(())
DlEnd(p) ==
    /\ dl[p].pc = "stream"
    /\ dl[p].left = 0
    /\ dl' = [dl EXCEPT ![p] = [@ EXCEPT !.pc = "ok"]]
    /\ UNCHANGED <<fs, dirs, pbPos, reqLog, modelsVars, builderVars, rv, dk>>

DownloadTo(p) ==
    DlSend(p) \/ DlOpen(p) \/ DlChunk(p) \/ DlStreamErr(p) \/ DlEnd(p)

-----------------------------------------------------------------------------
(* Models: the model cache (models.rs; main.rs holds the same two          *)
(* functions over from_url, which is download_to written out)              *)

Invocations == {1, 2}

ReqsBy(p) == Cardinality({i \in DOMAIN reqLog : reqLog[i].by = p})

NoCall == [src |-> NoSource, hit |-> FALSE, reqs0 |-> 0]

Returned(src, ok, path, reqs, hit) ==
    [src |-> src, ok |-> ok, path |-> path, reqs |-> reqs, hit |-> hit]

\* the history keeps the last two returns
Record(h, r) == IF Len(h) < 2 THEN Append(h, r) ELSE <<h[2], r>>

Prefixes(path) == {SubSeq(path, 1, n) : n \in 1..Len(path)}

\* mutant of ModelExists: the name is looked up outside base_dir
ModelExistsCwd(filename) == Exists(Join(<<>>, filename))

\* Models::exists
ModelExists(filename) == Exists(Join(BaseDir, filename))

\* Models::exists_hf: exists(format!("{}/{}", model, filename))
ModelExistsHf(model, filename) == Exists(Join(BaseDir \o model, filename))

\* Models::get_model up to its await
GetModel(p) ==
    /\ dl[p].pc = "idle"
    /\ budget[p] > 0
    /\ \E url \in Urls :
         LET filename == FileNameOf(url)
             src == UrlSource(url)
         IN
         \/ \* Found locally
            /\ ModelExists(filename)
            /\ hist' = [hist EXCEPT ![p] =
                   Record(@, Returned(src, TRUE, Join(BaseDir, filename), 0, TRUE))]
            /\ UNCHANGED <<dl, cur>>
         \/ /\ ~ModelExists(filename)
            /\ dl' = [dl EXCEPT ![p] =
                   CallDownloadTo(url, Join(BaseDir, filename), FALSE)]
            /\ cur' = [cur EXCEPT ![p] =
                   [src |-> src, hit |-> FALSE, reqs0 |-> ReqsBy(p)]]
            /\ hist' = hist
    /\ budget' = [budget EXCEPT ![p] = @ - 1]
    /\ UNCHANGED <<fs, dirs, pbPos, reqLog, builderVars, rv, dk>>

\* Models::get_hf_model up to its await
GetHfModel(p) ==
    /\ dl[p].pc = "idle"
    /\ budget[p] > 0
    /\ LET model == HfModel
           filename == HfFile
           src == HfSource(model, filename)
           model_dir == BaseDir \o model
       IN
       \/ \* Found locally
          /\ ModelExistsHf(model, filename)
          /\ hist' = [hist EXCEPT ![p] =
                 Record(@, Returned(src, TRUE, Join(model_dir, filename), 0, TRUE))]
          /\ UNCHANGED <<dl, cur, dirs>>
       \/ \* create_dir_all(&model_dir)? fails
          /\ ~ModelExistsHf(model, filename)
          /\ hist' = [hist EXCEPT ![p] =
                 Record(@, Returned(src, FALSE, <<>>, 0, FALSE))]
          /\ UNCHANGED <<dl, cur, dirs>>
       \/ /\ ~ModelExistsHf(model, filename)
          /\ dirs' = dirs \cup Prefixes(model_dir)
          /\ dl' = [dl EXCEPT ![p] =
                 CallDownloadTo(HfUrl(model, filename),
                                Join(model_dir, filename), FALSE)]
          /\ cur' = [cur EXCEPT ![p] =
                 [src |-> src, hit |-> FALSE, reqs0 |-> ReqsBy(p)]]
          /\ hist' = hist
    /\ budget' = [budget EXCEPT ![p] = @ - 1]
    /\ UNCHANGED <<fs, pbPos, reqLog, builderVars, rv, dk>>

\* download_to(..).await? returns into get_model / get_hf_model:
\* Err is passed on, Ok gives Ok(base_dir.join(..))
GetReturn(p) ==
    /\ dl[p].pc \in {"ok", "err"}
    /\ cur[p].src # NoSource
    /\ hist' = [hist EXCEPT ![p] =
           Record(@, Returned(cur[p].src, dl[p].pc = "ok",
                              IF dl[p].pc = "ok" THEN CachePath(cur[p].src) ELSE <<>>,
                              ReqsBy(p) - cur[p].reqs0, FALSE))]
    /\ cur' = [cur EXCEPT ![p] = NoCall]
    /\ dl' = [dl EXCEPT ![p] = NoFrame]
    /\ pbPos' = [pbPos EXCEPT ![p] = <<>>]
    /\ UNCHANGED <<fs, dirs, reqLog, budget, builderVars, rv, dk>>

Resolve(p) == GetModel(p) \/ GetHfModel(p) \/ GetReturn(p) \/ DownloadTo(p)

-----------------------------------------------------------------------------
(* The parts of the state a specification does not use stay as they are here *)

NoPath == [some |-> FALSE, path |-> <<>>]

SomePath(path) == [some |-> TRUE, path |-> path]

NoBuilder ==
    [temp_path |-> <<>>, output_dir |-> NoPath,
     llamafile_path |-> <<>>, zipalign_path |-> <<>>]

\* the locals of LlamafileBuilder::build: out is the output path, asset, into
\* and next belong to the release download in progress, llamaHit and zipHit
\* tell which binaries were found on disk, outPre and argsPre are the output
\* and .args files as the call found them
NoBuild ==
    [pc |-> "idle", models |-> <<>>, output |-> NoPath, out |-> <<>>,
     asset |-> "", into |-> <<>>, next |-> "",
     llamaHit |-> FALSE, zipHit |-> FALSE, fetched |-> {},
     outPre |-> NoFile, argsPre |-> NoFile, reqs0 |-> 0,
     spawns |-> 0, spawnFailed |-> FALSE, exited |-> FALSE, status |-> 0,
     err |-> ""]

NoResolution ==
    [assets |-> <<>>, prefix |-> "", done |-> FALSE, found |-> FALSE,
     asset |-> [name |-> "", browser_download_url |-> <<>>]]

\* the locals of Docker::build_image: sent holds the build requests made,
\* stream the messages the API has still to send, relayed the log events
NoDocker ==
    [pc |-> "idle", models |-> <<>>, llama |-> <<>>, dockerfile |-> <<>>,
     archive |-> <<>>, sent |-> <<>>, stream |-> <<>>, relayed |-> <<>>,
     err |-> ""]

ModelsIdle ==
    /\ cur = [p \in Invocations |-> NoCall]
    /\ hist = [p \in Invocations |-> <<>>]
    /\ budget = [p \in Invocations |-> 0]

BuilderIdle ==
    /\ builder = NoBuilder
    /\ bld = NoBuild
    /\ runs = <<>>
    /\ nbuilds = 0
    /\ results = <<>>

HttpIdle ==
    /\ dl = [p \in Invocations |-> NoFrame]
    /\ pbPos = [p \in Invocations |-> <<>>]
    /\ reqLog = <<>>

\* Models::new on an empty cache root: create_dir_all(basedir)
InitModels ==
    /\ fs = [path \in CachePaths |-> NoFile]
    /\ dirs = {BaseDir}
    /\ HttpIdle
    /\ cur = [p \in Invocations |-> NoCall]
    /\ hist = [p \in Invocations |-> <<>>]
    /\ BuilderIdle
    /\ rv = NoResolution
    /\ dk = NoDocker

\* resolve calls made one after the other on the same cache root
InitCache ==
    /\ InitModels
    /\ budget = [p \in Invocations |-> IF p = 1 THEN MaxCalls ELSE 0]

NextCache == Resolve(1)

SpecCache == InitCache /\ [][NextCache]_vars

-----------------------------------------------------------------------------
(* Claims on the sequential cache, SpecCache *)

SameSourceTwice(p) == Len(hist[p]) = 2 /\ hist[p][1].src = hist[p][2].src

\* C1 as stated: two resolve calls in sequence with the same source issue
\* exactly one download in total, the second call issues no request and
\* returns the path the first returned.
C1_ExactlyOneDownload ==
    \A p \in Invocations :
        SameSourceTwice(p) =>
            /\ hist[p][1].reqs + hist[p][2].reqs = 1
            /\ hist[p][2].reqs = 0
            /\ hist[p][2].path = hist[p][1].path

\* C1 amended: when the first of two resolve calls in sequence with the same
\* source returns Ok, the second is a cache hit: it issues no request and
\* returns Ok with the same path; the two calls issue exactly one download
\* when the first found the path absent, and none when it found it present.
C1_SecondCallHits ==
    \A p \in Invocations :
        SameSourceTwice(p) /\ hist[p][1].ok =>
            /\ hist[p][2].ok /\ hist[p][2].hit
            /\ hist[p][2].reqs = 0
            /\ hist[p][2].path = hist[p][1].path
            /\ hist[p][1].reqs + hist[p][2].reqs = (IF hist[p][1].hit THEN 0 ELSE 1)

C1_Witness ==
    /\ SameSourceTwice(1)
    /\ hist[1][1].ok /\ ~hist[1][1].hit /\ hist[1][1].reqs = 1
    /\ hist[1][2].hit
    /\ hist[1][1].src = HfSource(HfModel, HfFile)

\* C4 as stated: download fails when the request cannot be sent or the
\* status is not a success status, so download_to goes on to the destination
\* only for a success response and no byte of a non-success body is stored.
C4_NonSuccessFails ==
    /\ \A p \in Invocations :
           dl[p].pc \in {"open", "stream", "ok"} => IsSuccess(dl[p].resp.status)
    /\ \A path \in DOMAIN fs :
           \A i \in DOMAIN fs[path].data : fs[path].data[i] # BodyByte(404)

\* C5: a response without a content length makes download fail, and then
\* download_to has neither created nor written the destination, which the
\* resolve call found absent.
C5_MissingLengthRejected ==
    \A p \in Invocations :
        dl[p].resp.sent /\ ~dl[p].resp.hasLen =>
            /\ dl[p].pc = "err"
            /\ dl[p].err = "Failed to get content length"
            /\ ~Exists(dl[p].path)

C5_Witness ==
    /\ dl[1].resp.sent /\ ~dl[1].resp.hasLen
    /\ dl[1].pc = "err"
    /\ Len(reqLog) > 0

NonDecreasing(s) == \A i \in 1..(Len(s) - 1) : s[i] <= s[i + 1]

\* C6: the positions reported during a download of advertised size T never
\* decrease and never exceed T, the counter is the last position reported,
\* and it is exactly T when the stream has ended.
C6_ProgressMonotone ==
    \A p \in Invocations :
        /\ NonDecreasing(pbPos[p])
        /\ \A i \in DOMAIN pbPos[p] : pbPos[p][i] <= dl[p].total
        /\ dl[p].downloaded <= dl[p].total
        /\ Len(pbPos[p]) > 0 /\ dl[p].pc \in {"stream", "ok"} =>
               pbPos[p][Len(pbPos[p])] = dl[p].downloaded
        /\ dl[p].pc = "ok" => dl[p].downloaded = dl[p].total

C6_Witness ==
    /\ dl[1].pc = "ok"
    /\ Len(pbPos[1]) >= 2
    /\ dl[1].downloaded = dl[1].total

\* C14: a download that fails in the middle of the transfer, on a stream
\* error or on a write error, leaves the destination in place holding less
\* than the advertised body; no step removes a file; and a resolve call whose
\* cache path exists, whatever it holds, returns that path as a hit and sends
\* no request, while one that starts a download found the path absent.
C14_FailedDownloadPoisons ==
    [][\A p \in Invocations :
          /\ dl[p].pc = "stream" /\ dl'[p].pc = "err" =>
                /\ dl'[p].err \in {"Error while downloading file",
                                   "Error while writing to file"}
                /\ fs'[dl[p].path].exists
                /\ \E n \in 0..(dl[p].total - 1) :
                      fs'[dl[p].path].data = Repeat(BodyByte(dl[p].resp.status), n)
          /\ \A path \in DOMAIN fs : fs[path].exists => fs'[path].exists
          /\ budget'[p] < budget[p] =>
                LET r == hist'[p][Len(hist'[p])] IN
                \/ /\ dl'[p].pc = "send"
                   /\ dl'[p].path = CachePath(cur'[p].src)
                   /\ ~fs[dl'[p].path].exists
                \/ /\ dl' = dl /\ reqLog' = reqLog /\ fs' = fs
                   /\ hist'[p] # <<>>
                   /\ IF fs[CachePath(r.src)].exists
                      THEN r.ok /\ r.hit /\ r.reqs = 0 /\ r.path = CachePath(r.src)
                      ELSE ~r.ok /\ ~r.hit]_vars

\* a download broke after its first byte; the next resolve of the same source
\* was a hit on the one byte left behind and sent nothing
C14_Witness ==
    /\ SameSourceTwice(1)
    /\ ~hist[1][1].ok /\ hist[1][1].reqs = 1
    /\ hist[1][2].ok /\ hist[1][2].hit /\ hist[1][2].reqs = 0
    /\ hist[1][2].path = CachePath(hist[1][1].src)
    /\ fs[hist[1][2].path].data = <<"d">>
    /\ Len(reqLog) = 1

-----------------------------------------------------------------------------
(* Two invocations of the program on one cache root *)

\* main: each invocation of the program resolves its one model source
InitRace ==
    /\ InitModels
    /\ budget = [p \in Invocations |-> 1]

NextRace == \E p \in Invocations : Resolve(p)

SpecRace == InitRace /\ [][NextRace]_vars

\* C10: nothing stands between the existence check and the download: an
\* invocation that found the path absent opens it with truncation whatever
\* another invocation has written there since, so the later writer empties
\* the earlier writer's file.
C10_LaterWriterTruncates ==
    [][\A p \in Invocations :
          dl[p].pc = "open" /\ dl'[p].pc = "stream" =>
              /\ fs'[dl[p].path].exists
              /\ fs'[dl[p].path].data = <<>>]_vars

\* both invocations found the same path absent, both sent a GET for it, and
\* the second to open has truncated the bytes the first had written
C10_Witness ==
    /\ cur[1].src = cur[2].src /\ cur[1].src # NoSource
    /\ ~cur[1].hit /\ ~cur[2].hit
    /\ dl[1].pc = "stream" /\ dl[2].pc = "stream"
    /\ dl[1].path = dl[2].path
    /\ Len(reqLog) = 2 /\ reqLog[1].url = reqLog[2].url /\ reqLog[1].by # reqLog[2].by
    /\ dl[1].off > 0 /\ dl[2].off = 0
    /\ fs[dl[1].path].data = <<>>

-----------------------------------------------------------------------------
(* Release assets (llamafile_builder.rs; main.rs download_llamafile_release *)
(* resolves the asset the same way)                                        *)

\* str::starts_with
StartsWith(str, prefix) ==
    Len(prefix) <= Len(str) /\ SubSeq(str, 1, Len(prefix)) = prefix

\* impl ToString for GithubReleaseAsset
AssetPrefix(github_release) ==
    IF github_release = "LlamafileServer" THEN "llamafile-server" ELSE "zipalign"

\* GithubAsset { name, browser_download_url }
Asset(name) ==
    [name |-> name, browser_download_url |-> <<"github.com", "download", name>>]

NoAsset == [name |-> "", browser_download_url |-> <<>>]

RECURSIVE FindFrom(_, _, _)
\* Iterator::find: the scan from index i on, 0 when nothing matches
FindFrom(assets, prefix, i) ==
    IF i > Len(assets) THEN 0
    ELSE IF StartsWith(assets[i].name, prefix) THEN i
    ELSE FindFrom(assets, prefix, i + 1)

RECURSIVE RFindFrom(_, _, _)
RFindFrom(assets, prefix, i) ==
    IF i < 1 THEN 0
    ELSE IF StartsWith(assets[i].name, prefix) THEN i
    ELSE RFindFrom(assets, prefix, i - 1)

\* mutant of FindAsset: the scan runs from the end (rfind)
FindAssetLast(assets, prefix) ==
    LET i == RFindFrom(assets, prefix, Len(assets)) IN
    IF i = 0 THEN [found |-> FALSE, asset |-> NoAsset]
    ELSE [found |-> TRUE, asset |-> assets[i]]

\* release.assets.iter().find(|a| a.name.starts_with(prefix)).context(..)
FindAsset(assets, prefix) ==
    LET i == FindFrom(assets, prefix, 1) IN
    IF i = 0 THEN [found |-> FALSE, asset |-> NoAsset]
    ELSE [found |-> TRUE, asset |-> assets[i]]

-----------------------------------------------------------------------------
(* LlamafileBuilder *)

\* LLAMAFILE_GITHUB_RELEASE_URL
ReleaseUrl ==
    <<"api.github.com", "repos", "Mozilla-Ocho", "llamafile", "releases", "latest">>

\* tempfile::tempdir()?.into_path()
Tmp == <<"tmp">>

BinLlamafile == <<"bin", "llamafile-server">>

BinZipalign == <<"bin", "zipalign">>

OutDir == <<"out">>

CustomOut == <<"o.llamafile">>

ModelA == <<"models", "a.gguf">>

ModelB == <<"models", "b.v2.gguf">>

ModelLists == {<<ModelB, ModelA>>}

OutputChoices == {NoPath, SomePath(CustomOut)}

\* Path::file_name
FileName(path) == path[Len(path)]

\* Path::file_stem: the name up to its last '.', the whole name when the only
\* '.' is the first character
FileStem(path) ==
    LET name == FileName(path)
        dots == {i \in 2..Len(name) : SubSeq(name, i, i) = "."}
    IN IF dots = {} THEN name
       ELSE SubSeq(name, 1, (CHOOSE i \in dots : \A j \in dots : j <= i) - 1)

\* the releases the API may answer with
Releases ==
    { <<Asset("llamafile-0.1"), Asset("llamafile-server-0.1"), Asset("zipalign-0.1")>>,
      <<Asset("llamafile-server-0.1")>> }

BuildPaths ==
    {Join(Tmp, "llamafile-server"), Join(Tmp, "zipalign"), Join(Tmp, ".args"),
     BinLlamafile, BinZipalign, CustomOut, Join(OutDir, "b.v2")}

\* p.exists() && p.is_file()
IsFile(path) == path \in DOMAIN fs /\ fs[path].exists

\* LlamafileBuilder::new: the two binaries as given when both are files,
\* otherwise both inside the fresh temporary directory
NewBuilder(output_dir, llamafile_path, zipalign_path) ==
    IF /\ zipalign_path.some /\ IsFile(zipalign_path.path)
       /\ llamafile_path.some /\ IsFile(llamafile_path.path)
    THEN [temp_path |-> Tmp, output_dir |-> output_dir,
          llamafile_path |-> llamafile_path.path,
          zipalign_path |-> zipalign_path.path]
    ELSE [temp_path |-> Tmp, output_dir |-> output_dir,
          llamafile_path |-> Join(Tmp, "llamafile-server"),
          zipalign_path |-> Join(Tmp, "zipalign")]

\* self.temp_path.join(".args")
ArgsPath == Join(builder.temp_path, ".args")

\* LlamafileBuilder::get_output_path
GetOutputPath(model_path, output_path) ==
    IF output_path.some THEN [ok |-> TRUE, path |-> output_path.path]
    ELSE IF builder.output_dir.some
         THEN [ok |-> TRUE,
               path |-> Join(builder.output_dir.path, FileStem(model_path))]
         ELSE [ok |-> FALSE, path |-> <<>>]

\* mutant of CreateNew: create(true).truncate(true) in place of create_new(true)
CreateNewOverwrite(f, executable) ==
    [ok |-> TRUE, file |-> [exists |-> TRUE, data |-> <<>>, exec |-> executable]]

\* mutant of CreateNew: create(true), which opens the file that is there
CreateNewOrOpen(f, executable) ==
    IF f.exists THEN [ok |-> TRUE, file |-> f]
    ELSE [ok |-> TRUE,
          file |-> [exists |-> TRUE, data |-> <<>>, exec |-> executable]]

\* OpenOptions::new().write(true).create_new(true)[.mode(0o755)].open(path)
CreateNew(f, executable) ==
    IF f.exists THEN [ok |-> FALSE, file |-> f]
    ELSE [ok |-> TRUE,
          file |-> [exists |-> TRUE, data |-> <<>>, exec |-> executable]]

\* the lines of the .args file: format!("\n-m\n{}\n--host\n0.0.0.0\n", file_name)
ArgsText(model_path) == <<"", "-m", FileName(model_path), "--host", "0.0.0.0">>

\* what zipalign appends to the output on success: the model and the .args
Aligned(data, model_path) == data \o <<FileName(model_path), ".args">>

\* mutant of ZipalignArgs: the model before the output
ZipalignArgsModelFirst(output, model_path, args_file_path) ==
    <<"-j0", model_path, output, args_file_path>>

\* Command::new(zipalign).arg("-j0").arg(output).arg(models[0]).arg(args_file_path)
ZipalignArgs(output, model_path, args_file_path) ==
    <<"-j0", output, model_path, args_file_path>>

BuildFail(frame, msg) == [frame EXCEPT !.pc = "err", !.err = msg]

\* download_llamafile_github_release -> download_llamafile_github_release_into
\* up to its first await: bail when the path exists
StartReleaseDownload(frame, github_release, next) ==
    LET path == IF github_release = "LlamafileServer"
                THEN builder.llamafile_path ELSE builder.zipalign_path
    IN IF Exists(path) THEN BuildFail(frame, "already exists")
       ELSE [frame EXCEPT !.pc = "get_release", !.asset = github_release,
                          !.into = path, !.next = next]

\* a build call that returned is logged
Logged ==
    results' = IF bld'.pc \in {"ok", "err"} /\ bld.pc \notin {"ok", "err"}
               THEN Append(results, [ok |-> bld'.pc = "ok", err |-> bld'.err])
               ELSE results

\* LlamafileBuilder::build up to its first await (lines 74-82)
Build ==
    /\ bld.pc \in {"idle", "ok", "err"}
    /\ nbuilds < MaxBuilds
    /\ \E models \in ModelLists, output \in OutputChoices :
         LET o == GetOutputPath(models[1], output)
             hit == Exists(builder.llamafile_path)
             frame == [NoBuild EXCEPT
                          !.models = models, !.output = output,
                          !.out = o.path, !.llamaHit = hit,
                          !.outPre = IF o.ok THEN fs[o.path] ELSE NoFile,
                          !.argsPre = fs[ArgsPath],
                          !.reqs0 = Len(reqLog)]
         IN bld' = IF hit THEN [frame EXCEPT !.pc = "copy"]
                   ELSE StartReleaseDownload(frame, "LlamafileServer", "copy")
    /\ nbuilds' = nbuilds + 1
    /\ UNCHANGED <<fs, dirs, dl, pbPos, reqLog, modelsVars, builder, runs,
                   results, rv, dk>>

\* self.http_client.get(LLAMAFILE_GITHUB_RELEASE_URL).await, the search for
\* the asset, and the call of download_to(url, path, false)
GetRelease ==
    /\ bld.pc = "get_release"
    /\ reqLog' = Append(reqLog, [by |-> 1, url |-> ReleaseUrl])
    /\ \/ \* the GET fails or its body is not the JSON of a release
          /\ bld' = BuildFail(bld, "Failed to get latest llamafile release")
          /\ dl' = dl
       \/ \E release \in Releases :
            LET a == FindAsset(release, AssetPrefix(bld.asset)) IN
            IF a.found
            THEN /\ bld' = [bld EXCEPT !.pc = "downloading"]
                 /\ dl' = [dl EXCEPT ![1] =
                        CallDownloadTo(a.asset.browser_download_url, bld.into, FALSE)]
            ELSE /\ bld' = BuildFail(bld, "Failed to find asset in release")
                 /\ dl' = dl
    /\ Logged
    /\ UNCHANGED <<fs, dirs, pbPos, modelsVars, builder, runs, nbuilds, rv, dk>>

\* download_to(..).await? returns into build
ReleaseReturn ==
    /\ bld.pc = "downloading"
    /\ dl[1].pc \in {"ok", "err"}
    /\ bld' = IF dl[1].pc = "ok"
              THEN [bld EXCEPT !.pc = bld.next, !.fetched = @ \cup {bld.into}]
              ELSE BuildFail(bld, dl[1].err)
    /\ dl' = [dl EXCEPT ![1] = NoFrame]
    /\ pbPos' = [pbPos EXCEPT ![1] = <<>>]
    /\ Logged
    /\ UNCHANGED <<fs, dirs, reqLog, modelsVars, builder, runs, nbuilds, rv, dk>>

\* lines 84-102: open the llamafile, create the output, copy, sync_all
BuildCopy ==
    /\ bld.pc = "copy"
    /\ LET o == GetOutputPath(bld.models[1], bld.output)
           c == CreateNew(fs[o.path], TRUE)
       IN
       \/ \* the llamafile cannot be opened, or the output's directory is missing
          /\ bld' = BuildFail(bld, "io error")
          /\ fs' = fs
       \/ /\ ~o.ok
          /\ bld' = BuildFail(bld, "Neither output_dir nor output_path were specified")
          /\ fs' = fs
       \/ /\ o.ok /\ ~c.ok
          /\ bld' = BuildFail(bld, "File exists")
          /\ fs' = fs
       \/ \* std::io::copy or sync_all fails: the output stays, partly written
          /\ o.ok /\ c.ok
          /\ \E n \in 0..Len(fs[builder.llamafile_path].data) :
               fs' = [fs EXCEPT ![o.path] =
                   [c.file EXCEPT !.data = SubSeq(fs[builder.llamafile_path].data, 1, n)]]
          /\ bld' = BuildFail(bld, "io error")
       \/ /\ o.ok /\ c.ok
          /\ fs' = [fs EXCEPT ![o.path] =
                 [c.file EXCEPT !.data = fs[builder.llamafile_path].data]]
          /\ bld' = [bld EXCEPT !.pc = "args"]
    /\ Logged
    /\ UNCHANGED <<dirs, dl, pbPos, reqLog, modelsVars, builder, runs, nbuilds, rv, dk>>

\* lines 104-131: create .args, write it, sync_all, look for zipalign
BuildArgs ==
    /\ bld.pc = "args"
    /\ LET c == CreateNew(fs[ArgsPath], FALSE)
           hit == Exists(builder.zipalign_path)
       IN
       \/ /\ ~c.ok
          /\ bld' = BuildFail(bld, "Failed to create .args file")
          /\ fs' = fs
       \/ \* write_all or sync_all fails
          /\ c.ok
          /\ fs' = [fs EXCEPT ![ArgsPath] = c.file]
          /\ bld' = BuildFail(bld, "io error")
       \/ /\ c.ok
          /\ fs' = [fs EXCEPT ![ArgsPath] =
                 [c.file EXCEPT !.data = ArgsText(bld.models[1])]]
          /\ bld' = IF hit THEN [bld EXCEPT !.pc = "align", !.zipHit = TRUE]
                    ELSE StartReleaseDownload(bld, "Zipalign", "align")
    /\ Logged
    /\ UNCHANGED <<dirs, dl, pbPos, reqLog, modelsVars, builder, runs, nbuilds, rv, dk>>

\* lines 133-147: open zipalign, set_permissions(0o755), spawn
BuildAlign ==
    /\ bld.pc = "align"
    /\ LET path == builder.zipalign_path IN
       \/ \* zipalign cannot be opened or its mode cannot be set
          /\ bld' = BuildFail(bld, "io error")
          /\ UNCHANGED <<fs, runs>>
       \/ \* spawn fails
          /\ fs' = [fs EXCEPT ![path].exec = TRUE]
          /\ bld' = [BuildFail(bld, "spawn failed") EXCEPT
                        !.spawns = @ + 1, !.spawnFailed = TRUE]
          /\ runs' = runs
       \/ /\ fs' = [fs EXCEPT ![path].exec = TRUE]
          /\ bld' = [bld EXCEPT !.pc = "wait", !.spawns = @ + 1]
          /\ runs' = Append(runs,
                 [build |-> nbuilds, program |-> path,
                  args |-> ZipalignArgs(bld.out, bld.models[1], ArgsPath)])
    /\ Logged
    /\ UNCHANGED <<dirs, dl, pbPos, reqLog, modelsVars, builder, nbuilds, rv, dk>>

\* lines 148-153: .wait().await?; the exit status is dropped; Ok(())
BuildWait ==
    /\ bld.pc = "wait"
    /\ \/ \* wait fails
          /\ bld' = BuildFail(bld, "io error")
          /\ fs' = fs
       \/ \E status \in {0, 1} :
            /\ bld' = [bld EXCEPT !.pc = "ok", !.exited = TRUE, !.status = status]
            /\ fs' = IF status = 0
                     THEN [fs EXCEPT ![bld.out].data = Aligned(@, bld.models[1])]
                     ELSE fs
    /\ Logged
    /\ UNCHANGED <<dirs, dl, pbPos, reqLog, modelsVars, builder, runs, nbuilds, rv, dk>>

\* the builder as LlamafileBuilder::new leaves it: the temporary directory is
\* fresh, the output directory exists, the given binaries and an earlier
\* output file may or may not be there
InitBuild ==
    /\ \E bins \in BOOLEAN, old \in BOOLEAN :
         fs = [path \in BuildPaths |->
                 IF path = BinLlamafile /\ bins
                 THEN [exists |-> TRUE, data |-> <<"s">>, exec |-> FALSE]
                 ELSE IF path = BinZipalign /\ bins
                 THEN [exists |-> TRUE, data |-> <<"z">>, exec |-> FALSE]
                 ELSE IF path = CustomOut /\ old
                 THEN [exists |-> TRUE, data |-> <<"old">>, exec |-> FALSE]
                 ELSE NoFile]
    /\ dirs = {<<>>, Tmp, <<"bin">>, OutDir}
    /\ \E output_dir \in {NoPath, SomePath(OutDir)}, given \in BOOLEAN :
         builder = NewBuilder(output_dir,
                              IF given THEN SomePath(BinLlamafile) ELSE NoPath,
                              IF given THEN SomePath(BinZipalign) ELSE NoPath)
    /\ bld = NoBuild
    /\ runs = <<>>
    /\ nbuilds = 0
    /\ results = <<>>
    /\ HttpIdle
    /\ ModelsIdle
    /\ rv = NoResolution
    /\ dk = NoDocker

NextBuild ==
    \/ Build
    \/ GetRelease
    \/ DownloadTo(1)
    \/ ReleaseReturn
    \/ BuildCopy
    \/ BuildArgs
    \/ BuildAlign
    \/ BuildWait

SpecBuild == InitBuild /\ [][NextBuild]_vars

-----------------------------------------------------------------------------
(* Claims on the builder, SpecBuild *)

\* C2: when the output path exists as build is called, build does not return
\* Ok and the file is as it was; when .args exists as build is called, build
\* does not return Ok, no zipalign is spawned and .args is as it was.
C2_NonOverwrite ==
    /\ bld.outPre.exists =>
          /\ bld.pc # "ok"
          /\ bld.pc \notin {"args", "align", "wait"}
          /\ fs[bld.out] = bld.outPre
    /\ bld.argsPre.exists =>
          /\ bld.pc # "ok"
          /\ bld.pc \notin {"align", "wait"}
          /\ bld.spawns = 0
          /\ fs[ArgsPath] = bld.argsPre

\* after a build that returned Ok, one build has failed on the existing
\* .args and the next on its existing output file, and both files still hold
\* what they held
C2_Witness ==
    /\ Len(results) = 3
    /\ results[1].ok
    /\ results[2].err = "Failed to create .args file"
    /\ results[3].err = "File exists"
    /\ bld.outPre.exists /\ bld.outPre.data # <<>> /\ fs[bld.out] = bld.outPre
    /\ bld.argsPre.exists /\ fs[ArgsPath].data = ArgsText(ModelB)

\* C3 as stated: when zipalign cannot be spawned or exits with a non-zero
\* status, build returns an error; zipalign is spawned at most once per build.
C3_AlignFailureIsError ==
    /\ bld.spawnFailed \/ (bld.exited /\ bld.status # 0) => bld.pc = "err"
    /\ bld.spawns <= 1

ReleaseGets == {i \in DOMAIN reqLog : i > bld.reqs0}

\* C9 as stated: a binary found at its path causes no request; on a miss the
\* latest release is queried first and then the URL of the first asset with
\* the prefix is downloaded into that path; after a successful download the
\* file at that path is executable.
C9_ReleaseAssetExecutable ==
    /\ bld.pc = "copy" /\ bld.llamaHit => ReleaseGets = {}
    /\ bld.pc = "downloading" =>
          /\ ~Exists(bld.into) \/ dl[1].pc \notin {"send", "open"}
          /\ \E i \in ReleaseGets : reqLog[i].url = ReleaseUrl
          /\ dl[1].path = bld.into
          /\ \E name \in {"llamafile-server-0.1", "zipalign-0.1"} :
                /\ StartsWith(name, AssetPrefix(bld.asset))
                /\ dl[1].url = Asset(name).browser_download_url
    /\ \A path \in bld.fetched : fs[path].exists /\ fs[path].exec

\* C11: zipalign is spawned only by a build whose output file exists, is
\* executable and holds the bytes of the llamafile, and whose .args holds the
\* whole manifest of the first model; its arguments are, in order, "-j0", the
\* output path, the first model's path and the .args path.
C11_AlignAfterCopyAndArgs ==
    /\ bld.spawns > 0 \/ bld.pc \in {"align", "wait"} =>
          /\ fs[bld.out].exists /\ fs[bld.out].exec /\ ~bld.outPre.exists
          /\ bld.exited \/ fs[bld.out].data = fs[builder.llamafile_path].data
          /\ fs[ArgsPath].exists /\ ~bld.argsPre.exists
          /\ fs[ArgsPath].data = <<"", "-m", FileName(bld.models[1]), "--host", "0.0.0.0">>
    /\ bld.pc = "wait" =>
          /\ runs # <<>>
          /\ runs[Len(runs)].build = nbuilds
          /\ runs[Len(runs)].program = builder.zipalign_path
          /\ Len(runs[Len(runs)].args) = 4
          /\ runs[Len(runs)].args[1] = "-j0"
          /\ runs[Len(runs)].args[2] = bld.out
          /\ runs[Len(runs)].args[3] = bld.models[1]
          /\ runs[Len(runs)].args[4] = Join(builder.temp_path, ".args")
    /\ Len(runs) <= nbuilds
    /\ \A i \in DOMAIN runs : runs[i].build <= nbuilds

\* C15 as stated: at most one build of a builder spawns zipalign, and every
\* build call that found .args in place fails at the creation of .args, having
\* first created its own output file as a copy of the llamafile.
C15_LaterBuildsFailAtArgs ==
    /\ Len(runs) <= 1
    /\ bld.argsPre.exists /\ bld.pc \in {"ok", "err"} =>
          /\ bld.pc = "err" /\ bld.err = "Failed to create .args file"
          /\ ~bld.outPre.exists
          /\ fs[bld.out].exists
          /\ fs[bld.out].data = fs[builder.llamafile_path].data

\* C15 amended: at most one build of a builder spawns zipalign and at most
\* one returns Ok; .args, once there, stays; a build call that found .args in
\* place never reaches the alignment and never returns Ok; when it fails at
\* the creation of .args it has first created its own output file as a copy
\* of the llamafile (it may fail earlier instead, on its output).
C15_AtMostOneAlignment ==
    /\ Len(runs) <= 1
    /\ Cardinality({i \in DOMAIN results : results[i].ok}) <= 1
    /\ runs # <<>> \/ (\E i \in DOMAIN results : results[i].ok) => fs[ArgsPath].exists
    /\ bld.argsPre.exists =>
          /\ fs[ArgsPath].exists
          /\ bld.pc \notin {"align", "wait", "ok"}
          /\ bld.spawns = 0 /\ bld.fetched \subseteq {builder.llamafile_path}
    /\ bld.pc = "err" /\ bld.err = "Failed to create .args file" =>
          /\ bld.argsPre.exists
          /\ ~bld.outPre.exists
          /\ fs[bld.out].exists /\ fs[bld.out].exec
          /\ fs[bld.out].data = fs[builder.llamafile_path].data

\* after a build that returned Ok, a second build to another output has
\* failed at .args, leaving its own copy of the llamafile behind
C15_Witness ==
    /\ Len(results) = 2
    /\ results[1].ok
    /\ results[2].err = "Failed to create .args file"
    /\ bld.pc = "err" /\ bld.argsPre.exists
    /\ Len(runs) = 1 /\ runs[1].args[2] # bld.out
    /\ ~bld.outPre.exists
    /\ fs[bld.out].data = fs[builder.llamafile_path].data

\* zipalign, downloaded by this build after the .args was written, is running
\* on the output in the output directory
C11_Witness ==
    /\ bld.pc = "wait"
    /\ ~bld.zipHit /\ builder.zipalign_path \in bld.fetched
    /\ runs[Len(runs)].args =
          <<"-j0", Join(OutDir, "b.v2"), ModelB, Join(Tmp, ".args")>>
    /\ fs[Join(OutDir, "b.v2")].data = fs[builder.llamafile_path].data

-----------------------------------------------------------------------------
(* Asset resolution on its own: find over any manifest and prefix *)

AssetNames ==
    {"llamafile-0.1", "llamafile-server-0.1-arm64", "llamafile-server-0.1",
     "zipalign-0.1"}

Manifests ==
    UNION {[1..n -> {Asset(name) : name \in AssetNames}] : n \in 0..MaxAssets}

LogicalPrefixes == {"llamafile-server", "zipalign", "nonexistent"}

\* llamafile_builder.rs lines 184-188 / main.rs lines 410-415
ResolveAsset ==
    /\ ~rv.done
    /\ LET r == FindAsset(rv.assets, rv.prefix) IN
       rv' = [rv EXCEPT !.done = TRUE, !.found = r.found, !.asset = r.asset]
    /\ UNCHANGED <<fs, dirs, dl, pbPos, reqLog, modelsVars, builderVars, dk>>

InitResolve ==
    /\ \E assets \in Manifests, prefix \in LogicalPrefixes :
         rv = [NoResolution EXCEPT !.assets = assets, !.prefix = prefix]
    /\ fs = [path \in {} |-> NoFile]
    /\ dirs = {}
    /\ HttpIdle
    /\ ModelsIdle
    /\ BuilderIdle
    /\ dk = NoDocker

NextResolve == ResolveAsset

SpecResolve == InitResolve /\ [][NextResolve]_vars

Matches(assets, prefix) ==
    {i \in DOMAIN assets : StartsWith(assets[i].name, prefix)}

\* C7: resolution returns the asset of least index whose name starts with
\* the prefix, and fails when no name starts with it.
C7_FirstPrefixMatch ==
    rv.done =>
        LET m == Matches(rv.assets, rv.prefix) IN
        IF m = {} THEN ~rv.found
        ELSE /\ rv.found
             /\ \E i \in m : (\A j \in m : i <= j) /\ rv.asset = rv.assets[i]

C7_Witness ==
    /\ rv.done /\ rv.found
    /\ rv.prefix = "llamafile-server"
    /\ Len(rv.assets) = 3
    /\ Matches(rv.assets, rv.prefix) = {2, 3}
    /\ rv.assets[2] # rv.assets[3]
    /\ rv.asset = rv.assets[2]

-----------------------------------------------------------------------------
(* Docker (docker.rs) *)

DockerLlama == <<"llamafile-server">>

DockerPaths == {DockerLlama, ModelA, ModelB}

\* str::contains
Contains(str, sub) ==
    \E i \in 1..(Len(str) - Len(sub) + 1) : SubSeq(str, i, i + Len(sub) - 1) = sub

\* format!("COPY /model-{} ./model-{}\n", i, i)
CopyLine(i) == "COPY /model-" \o ToString(i) \o " ./model-" \o ToString(i)

EntrypointLine ==
    "ENTRYPOINT [\"/bin/sh\", \"/usr/src/app/llamafile-server\", \"-m\", \"/usr/src/app/model-0\", \"--host\", \"0.0.0.0\"]"

\* Docker::dockerfile: the lines of the text
Dockerfile(models_path) ==
    <<"",
      "FROM debian:bullseye-slim AS final",
      "RUN addgroup --gid 1000 user",
      "RUN adduser --uid 1000 --gid 1000 --disabled-password --gecos \"\" user",
      "USER user",
      "WORKDIR /usr/src/app",
      "COPY /llamafile-server ./llamafile-server">>
    \o [i \in 1..Len(models_path) |-> CopyLine(i - 1)]
    \o <<"", "# Expose 8080 port.", "EXPOSE 8080", "", "# Set entrypoint.",
         EntrypointLine>>

\* mutant of Readable: a missing path is appended as an empty entry
ReadableAlways(path) == TRUE

\* tar::Builder::append_path_with_name reads the path: it must be there
Readable(path) == path \in dirs \/ (path \in DOMAIN fs /\ fs[path].exists)

PathEntry(path, name) == [name |-> name, from |-> path, data |-> <<>>, mode |-> 0]

\* Header::new_gnu, set_path, set_size, set_mode(0o755), set_cksum, append_data
DataEntry(name, data) == [name |-> name, from |-> <<>>, data |-> data, mode |-> 755]

RECURSIVE AppendModels(_, _, _)
\* for (i, model_path) in models_path.iter().enumerate(): the first path that
\* cannot be read ends the loop with its error
AppendModels(tar, models_path, i) ==
    IF ~tar.ok \/ i > Len(models_path) THEN tar
    ELSE IF ~Readable(models_path[i])
         THEN [ok |-> FALSE, entries |-> tar.entries]
         ELSE AppendModels(
                  [ok |-> TRUE,
                   entries |-> Append(tar.entries,
                       PathEntry(models_path[i], "./model-" \o ToString(i - 1)))],
                  models_path, i + 1)

\* mutant of Tarball: the Dockerfile is appended before llamafile-server
TarballRecipeFirst(dockerfile, models_path, llama_path) ==
    IF ~Readable(llama_path) THEN [ok |-> FALSE, entries |-> <<>>]
    ELSE AppendModels(
             [ok |-> TRUE,
              entries |-> <<DataEntry("./Dockerfile", dockerfile),
                            PathEntry(llama_path, "./llamafile-server")>>],
             models_path, 1)

\* Docker::tarball: the entries of the archive, or the first error
Tarball(dockerfile, models_path, llama_path) ==
    IF ~Readable(llama_path) THEN [ok |-> FALSE, entries |-> <<>>]
    ELSE AppendModels(
             [ok |-> TRUE,
              entries |-> <<PathEntry(llama_path, "./llamafile-server"),
                            DataEntry("./Dockerfile", dockerfile)>>],
             models_path, 1)

ModelPathLists == UNION {[1..n -> {ModelA, ModelB}] : n \in 0..MaxModels}

\* what the build API streams back: decoded messages and failures
Streams == UNION {[1..n -> {"ok", "err"}] : n \in 0..MaxMsgs}

\* Docker::build_image up to its first await: dockerfile, tarball(..)?, the
\* build request with the archive as its context
DockerBuild ==
    /\ dk.pc = "idle"
    /\ \E models \in ModelPathLists, stream \in Streams :
         LET dockerfile == Dockerfile(models)
             tar == Tarball(dockerfile, models, DockerLlama)
             frame == [dk EXCEPT !.models = models, !.llama = DockerLlama,
                                 !.dockerfile = dockerfile]
         IN
         \/ \* header.set_path, append_data, into_inner or finish fails
            /\ stream = <<>>
            /\ dk' = [frame EXCEPT !.pc = "err", !.err = "tarball"]
         \/ \* a path cannot be read
            /\ ~tar.ok
            /\ stream = <<>>
            /\ dk' = [frame EXCEPT !.pc = "err", !.err = "tarball"]
         \/ /\ tar.ok
            /\ dk' = [frame EXCEPT
                        !.pc = "relay", !.archive = tar.entries,
                        !.sent = Append(@, [dockerfile |-> "Dockerfile", rm |-> TRUE,
                                            context |-> tar.entries]),
                        !.stream = stream]
    /\ UNCHANGED <<fs, dirs, dl, pbPos, reqLog, modelsVars, builderVars, rv>>

\* mutant of DockerRelay: a failed message ends build_image, as `msg?` would
DockerRelayAbortOnError ==
    /\ dk.pc = "relay"
    /\ dk.stream # <<>>
    /\ dk' = IF Head(dk.stream) = "ok"
             THEN [dk EXCEPT !.stream = Tail(@),
                             !.relayed = Append(@, [level |-> "info", msg |-> "ok"])]
             ELSE [dk EXCEPT !.pc = "err", !.err = "stream", !.stream = <<>>]
    /\ UNCHANGED <<fs, dirs, dl, pbPos, reqLog, modelsVars, builderVars, rv>>

\* one turn of `while let Some(msg) = build_image.next().await`
DockerRelay ==
    /\ dk.pc = "relay"
    /\ dk.stream # <<>>
    /\ dk' = [dk EXCEPT
                 !.stream = Tail(@),
                 !.relayed = Append(@,
                     [level |-> IF Head(dk.stream) = "ok" THEN "info" ELSE "error",
                      msg |-> Head(dk.stream)])]
    /\ UNCHANGED <<fs, dirs, dl, pbPos, reqLog, modelsVars, builderVars, rv>>

\* the stream ends: Ok(())
DockerEnd ==
    /\ dk.pc = "relay"
    /\ dk.stream = <<>>
    /\ dk' = [dk EXCEPT !.pc = "ok"]
    /\ UNCHANGED <<fs, dirs, dl, pbPos, reqLog, modelsVars, builderVars, rv>>

\* the serving executable and the model files may or may not be readable
InitDocker ==
    /\ \E present \in SUBSET DockerPaths :
         fs = [path \in DockerPaths |->
                 IF path \in present
                 THEN [exists |-> TRUE, data |-> <<"d">>, exec |-> FALSE]
                 ELSE NoFile]
    /\ dirs = {}
    /\ HttpIdle
    /\ ModelsIdle
    /\ BuilderIdle
    /\ rv = NoResolution
    /\ dk = NoDocker

NextDocker == DockerBuild \/ DockerRelay \/ DockerEnd

SpecDocker == InitDocker /\ [][NextDocker]_vars

CopyLines(text) == {l \in DOMAIN text : StartsWith(text[l], "COPY /model-")}

\* C8: for n model paths the archive holds exactly n + 2 entries, in the
\* order ./llamafile-server, ./Dockerfile, ./model-0 .. ./model-(n-1), each
\* model entry read from the model path of its index; the recipe has exactly
\* one COPY line per model index and none besides, and its one ENTRYPOINT
\* line names model-0 and no other model.
C8_ArchiveShape ==
    dk.pc \in {"relay", "ok"} =>
        LET n == Len(dk.models)
            text == dk.archive[2].data
            entry == {l \in DOMAIN text : StartsWith(text[l], "ENTRYPOINT")}
        IN
        /\ Len(dk.archive) = n + 2
        /\ dk.archive[1].name = "./llamafile-server" /\ dk.archive[1].from = dk.llama
        /\ dk.archive[2].name = "./Dockerfile"
        /\ \A i \in 0..(n - 1) :
              /\ dk.archive[i + 3].name = "./model-" \o ToString(i)
              /\ dk.archive[i + 3].from = dk.models[i + 1]
              /\ Cardinality({l \in CopyLines(text) : text[l] = CopyLine(i)}) = 1
        /\ Cardinality(CopyLines(text)) = n
        /\ Cardinality(entry) = 1
        /\ \A l \in entry :
              /\ Contains(text[l], "model-0")
              /\ \A k \in 1..(n + 1) : ~Contains(text[l], "model-" \o ToString(k))
        /\ dk.sent[1].context = dk.archive

C8_Witness ==
    /\ dk.pc = "relay"
    /\ dk.models = <<ModelB, ModelA>>
    /\ Len(dk.archive) = 4
    /\ dk.archive[3].from = ModelB /\ dk.archive[4].name = "./model-1"

\* C12: a build_image call whose serving executable or one of whose model
\* paths cannot be read returns an error; a call that returned an error from
\* the archive has sent no build request and relayed nothing; a build
\* request is sent only with the whole archive, every path of which was read.
C12_ArchiveErrorBeforeRequest ==
    LET missing == {path \in {dk.llama} \cup {dk.models[i] : i \in DOMAIN dk.models} :
                        ~fs[path].exists}
    IN
    /\ dk.pc # "idle" /\ missing # {} => dk.pc = "err"
    /\ dk.pc = "err" => dk.sent = <<>> /\ dk.relayed = <<>> /\ dk.stream = <<>>
    /\ dk.sent # <<>> =>
          /\ missing = {}
          /\ Len(dk.sent) = 1
          /\ Len(dk.sent[1].context) = Len(dk.models) + 2
          /\ \A i \in DOMAIN dk.sent[1].context :
                dk.sent[1].context[i].from # <<>> =>
                    fs[dk.sent[1].context[i].from].exists

\* the second of two models cannot be read: the call has failed after the
\* first model was appended, and nothing was sent
C12_Witness ==
    /\ dk.pc = "err"
    /\ dk.models = <<ModelB, ModelA>>
    /\ fs[DockerLlama].exists /\ fs[ModelB].exists /\ ~fs[ModelA].exists
    /\ dk.sent = <<>>

\* the messages of the stream: those relayed so far, then those still to come
StreamOf(d) == [i \in 1..Len(d.relayed) |-> d.relayed[i].msg] \o d.stream

\* C13: every step of the relay keeps the messages of the stream, none lost
\* and none reordered, moves one message from the stream to the log when
\* there is one, logs a decoded message as info and a failed one as error,
\* and leaves the relay only by returning Ok once the stream is empty.
C13_RelayNeverAborts ==
    [][dk.pc = "relay" =>
          /\ StreamOf(dk') = StreamOf(dk)
          /\ \A i \in DOMAIN dk'.relayed :
                dk'.relayed[i].level =
                    (IF dk'.relayed[i].msg = "ok" THEN "info" ELSE "error")
          /\ IF dk.stream # <<>>
             THEN dk'.pc = "relay" /\ Len(dk'.relayed) = Len(dk.relayed) + 1
             ELSE dk'.pc = "ok" /\ dk'.relayed = dk.relayed]_vars

\* the stream has ended after a failed message followed by a decoded one,
\* both relayed
C13_Witness ==
    /\ dk.pc = "ok"
    /\ dk.stream = <<>>
    /\ Len(dk.relayed) = 2
    /\ dk.relayed[1] = [level |-> "error", msg |-> "err"]
    /\ dk.relayed[2] = [level |-> "info", msg |-> "ok"]

====
